---- MODULE Spec2Model ----
(***************************************************************************)
(* Map component (src/unnamed/part_000): concurrent loading of tile        *)
(* metadata with async.each + $.getJSON, aggregation of the layers'        *)
(* bounds, the click handler and the teardown.                             *)
(*                                                                         *)
(* Every handler runs to completion on the single JavaScript event loop,   *)
(* so each handler is one atomic action.  The environment decides when a   *)
(* request settles and with what.                                          *)
(***************************************************************************)
EXTENDS Integers, Sequences, FiniteSets, TLC

MaxTiles == 2      \* longest `tiles` prop
MaxLat == 2        \* latitudes range over 0..MaxLat
MaxLng == 1        \* longitudes range over 0..MaxLng
MaxFiles == 2      \* most files in one upload batch
MaxBatches == 2    \* most upload batches started

VARIABLES
  tiles,             \* props.tiles: the descriptors, <<[url |-> 1, meta |-> ...], ...>>
  ctrl,              \* "Idle" (constructed), "Loading" (mounted, async.each running),
                     \* "Ready" (final callback took the else branch to its end),
                     \* "Failed" (final callback took the err branch)
  unmounted,         \* componentWillUnmount has run (this.map removed)
  tileJsonRequests,  \* this.tileJsonRequests: requests in push order; <<>> when unset/emptied
  req,               \* per request: "unsent", "pending", "done" (done handler returned),
                     \* "threw" (done handler threw), "failed" (fail handler ran)
  info,              \* per request: the document handed to the done handler
  rerr,              \* per request: the errorThrown handed to the fail handler
  imageryLayers,     \* this.imageryLayers: layers in completion order
  mapBounds,         \* this.mapBounds
  completed,         \* async.each: number of iteratee callbacks called without error
  cbLive,            \* async.each: the final callback has not been consumed yet
  cbCount,           \* number of times the final callback has run
  cbErr,             \* url of the tile whose error was handed to the final callback, 0 if none
  failOrder,         \* urls of the failed fetches, in the order they failed
  error,             \* this.state.error
  fitArg,            \* argument of the successful this.map.fitBounds call
  fitThrew,          \* this.map.fitBounds threw
  clickHandler,      \* this.map.on('click', ...) is registered
  lastClick,         \* the layers (positions in imageryLayers) that got openPopup()
                     \* in the last map click
  aborted,           \* requests on which abort() has been called
  unmountThrew,      \* componentWillUnmount threw
  opacity,           \* props.opacity, in percent
  overlays,          \* the overlays handed to the layers control: pairs <<label, layer>>,
                     \* the layer as a position in imageryLayers
  \* ProjectListItem
  upload,            \* this.state.upload
  updatingTask,      \* this.state.updatingTask
  showTaskList,      \* this.state.showTaskList
  refreshing,        \* this.state.refreshing
  itemError,         \* this.state.error
  refreshes,         \* refresh requests in flight
  patchLog,          \* task ids of the PATCH requests issued by updateTaskInfo, in order
  settled,           \* how many of them have settled
  picking,           \* the user is dragging files over the item or has the file dialog open
  queued,            \* Dropzone: files added and not yet sent
  sending,           \* Dropzone: files of the batch being uploaded, 0 if none
  batch,             \* number of upload batches started; the server gives batch b task id b
  saved,             \* batches during which the user saved the task options
  parsed,            \* batches completed with every file successful and a task id parsed
  failed             \* batches completed with a failed file

vars == <<tiles, ctrl, unmounted, tileJsonRequests, req, info, rerr, imageryLayers,
          mapBounds, completed, cbLive, cbCount, cbErr, failOrder, error, fitArg,
          fitThrew, clickHandler, lastClick, aborted, unmountThrew, opacity,
          overlays, upload, updatingTask, showTaskList, refreshing, itemError,
          refreshes, patchLog, settled, picking, queued, sending, batch, saved,
          parsed, failed>>

mapVars == <<tiles, ctrl, unmounted, tileJsonRequests, req, info, rerr, imageryLayers,
             mapBounds, completed, cbLive, cbCount, cbErr, failOrder, error, fitArg,
             fitThrew, clickHandler, lastClick, aborted, unmountThrew, opacity,
             overlays>>

uploadVars == <<upload, updatingTask, showTaskList, refreshing, itemError, refreshes,
                patchLog, settled, picking, queued, sending, batch, saved, parsed,
                failed>>

N == Len(tiles)
Urls == 1..N

----------------------------------------------------------------------------
(* Leaflet.LatLngBounds as the component uses it *)

Min(a, b) == IF a <= b THEN a ELSE b
Max(a, b) == IF a >= b THEN a ELSE b

\* `null` (this.mapBounds before the first layer), and "no call yet" for fitArg
Null == [kind |-> "null", south |-> 0, west |-> 0, north |-> 0, east |-> 0]
NotCalled == [kind |-> "none", south |-> 0, west |-> 0, north |-> 0, east |-> 0]
\* Leaflet.latLngBounds() without corners
EmptyBounds == [kind |-> "empty", south |-> 0, west |-> 0, north |-> 0, east |-> 0]

\* LatLngBounds.extend(latlng), latlng = <<lat, lng>>
ExtendPoint(b, p) ==
  IF b.kind = "empty"
  THEN [kind |-> "bounds", south |-> p[1], west |-> p[2], north |-> p[1], east |-> p[2]]
  ELSE [kind |-> "bounds",
        south |-> Min(p[1], b.south), west |-> Min(p[2], b.west),
        north |-> Max(p[1], b.north), east |-> Max(p[2], b.east)]

\* a mutant of Extend: the new bounds replace the aggregate
ExtendReplaces(b, b2) == IF b2.kind = "empty" THEN b ELSE b2

\* LatLngBounds.extend(bounds)
Extend(b, b2) ==
  IF b2.kind = "empty" THEN b
  ELSE IF b.kind = "empty" THEN b2
  ELSE [kind |-> "bounds",
        south |-> Min(b2.south, b.south), west |-> Min(b2.west, b.west),
        north |-> Max(b2.north, b.north), east |-> Max(b2.east, b.east)]

\* Leaflet.latLngBounds([c1, c2])
LatLngBounds(c1, c2) == ExtendPoint(ExtendPoint(EmptyBounds, c1), c2)

\* LatLngBounds.contains(latlng)
Contains(b, p) ==
  /\ b.kind = "bounds"
  /\ b.south <= p[1] /\ p[1] <= b.north
  /\ b.west <= p[2] /\ p[2] <= b.east

\* a mutant of Reverse: the pair is left in document order
ReverseNot(s) == s

\* Array.prototype.reverse on a pair
Reverse(s) == <<s[2], s[1]>>

\* info.bounds -> Leaflet.latLngBounds([bounds.slice(0,2).reverse(), bounds.slice(2,4).reverse()])
BoundsOfInfo(box) ==
  LatLngBounds(Reverse(SubSeq(box, 1, 2)), Reverse(SubSeq(box, 3, 4)))

----------------------------------------------------------------------------
(* The inputs *)

\* bounds arrays [west, south, east, north] of the documents: the cells of a
\* grid, so that two tiles are equal, share an edge or a corner, or are apart
Boxes == { <<w, s, e, n>> : w \in 0..MaxLng, s \in 0..MaxLat, e \in 0..MaxLng, n \in 0..MaxLat }
GoodBoxes == { b \in Boxes : b[3] = b[1] + 1 /\ b[4] = b[2] + 1 }
NoBox == <<0, 0, 0, 0>>

\* info.name of the documents; meta.name of a descriptor as the host provides it
Names == {"a", "b"}
NoName == "undefined"

\* the name of the document served for box b: neighbouring boxes are named
\* differently, and two descriptors may still be served the same name
NameOf(b) == IF (b[1] + b[2]) % 2 = 0 THEN "a" ELSE "b"

\* a tile metadata document, reduced to its name and to the fields whose absence
\* the handler trips over
Docs == { [bounds |-> b, hasBounds |-> TRUE, hasTiles |-> TRUE, name |-> NameOf(b)] :
            b \in GoodBoxes }
        \cup { [bounds |-> NoBox, hasBounds |-> h[1], hasTiles |-> h[2], name |-> "a"] :
                  h \in (BOOLEAN \X BOOLEAN) \ {<<TRUE, TRUE>>} }
NoDoc == [bounds |-> NoBox, hasBounds |-> FALSE, hasTiles |-> FALSE, name |-> NoName]

\* a mutant of Associate: the descriptor's meta is replaced by a fresh object
AssociateFresh(meta, d) == [task |-> 0, name |-> d.name]

\* meta.name = info.name
Associate(meta, d) == [meta EXCEPT !.name = d.name]

\* overlays[label] = layer
Put(ov, label, layer) == { e \in ov : e[1] # label } \cup { <<label, layer>> }

\* let overlays = {}; this.imageryLayers.forEach(layer => overlays[meta.name] = layer),
\* the meta of a layer being the meta object of its descriptor
OverlaysOf(layers, tls) ==
  LET F[k \in 0..Len(layers)] ==
        IF k = 0 THEN {}
        ELSE Put(F[k-1], tls[layers[k].tile].meta.name, k)
  IN F[Len(layers)]
Malformed(d) == ~d.hasBounds \/ ~d.hasTiles

\* errorThrown of jqXHR.fail: the exception of a parse error (an Error object),
\* the HTTP status text (a string, "" over HTTP/2), "" for a network failure
FailKinds == {"parsererror", "http", "network"}
ErrorThrown(kind) ==
  CASE kind = "parsererror" -> {"ErrorObject"}
    [] kind = "http"        -> {"StatusText", "EmptyString"}
    [] kind = "network"     -> {"EmptyString"}
NoErr == "null"
\* JavaScript truthiness of the err given to an async callback
Truthy(err) == err \notin {"EmptyString", NoErr}
\* err.message
Message(err) == IF err = "ErrorObject" THEN "msg" ELSE "undefined"

\* the values the host gives props.opacity: the default and one other
Opacities == {50, 100}

RECURSIVE GCD(_, _)
GCD(a, b) == IF b = 0 THEN a ELSE GCD(b, a % b)

\* the number a / b as a fraction in lowest terms
Fraction(a, b) == [num |-> a \div GCD(a, b), den |-> b \div GCD(a, b)]

\* options.opacity of a Leaflet.tileLayer created without an opacity option
DefaultOpacity == Fraction(1, 1)

\* a mutant of ApplyOpacity: the layer's opacity is scaled by the new value
ApplyOpacityScales(layers, p) ==
  [k \in 1..Len(layers) |->
     [layers[k] EXCEPT !.opacity = Fraction(@.num * p, @.den * 100)]]

\* componentDidUpdate: imageryLayer.setOpacity(this.props.opacity / 100) on every layer
ApplyOpacity(layers, p) ==
  [k \in 1..Len(layers) |-> [layers[k] EXCEPT !.opacity = Fraction(p, 100)]]

Points == (0..MaxLat) \X (0..MaxLng)
NoClick == <<>>

----------------------------------------------------------------------------
\* taskId: null
NoTask == 0

\* getDefaultUploadState(), without the progress figures
DefaultUploadState ==
  [uploading |-> FALSE, showEditTask |-> FALSE, error |-> "", totalCount |-> 0,
   savedTaskInfo |-> FALSE, taskId |-> NoTask]

\* update(this.state, {upload: {$merge: props}}).upload
Merge(u, props) == [f \in DOMAIN u |-> IF f \in DOMAIN props THEN props[f] ELSE u[f]]

Init ==
  /\ tiles \in { [i \in 1..k |-> [url |-> i, meta |-> [task |-> i, name |-> NoName]]] :
                  k \in 0..MaxTiles }
  /\ ctrl = "Idle"
  /\ unmounted = FALSE
  /\ tileJsonRequests = <<>>
  /\ req = [i \in 1..Len(tiles) |-> "unsent"]
  /\ info = [i \in 1..Len(tiles) |-> NoDoc]
  /\ rerr = [i \in 1..Len(tiles) |-> NoErr]
  /\ imageryLayers = <<>>
  /\ mapBounds = Null
  /\ completed = 0
  /\ cbLive = TRUE
  /\ cbCount = 0
  /\ cbErr = 0
  /\ failOrder = <<>>
  /\ error = ""
  /\ fitArg = NotCalled
  /\ fitThrew = FALSE
  /\ clickHandler = FALSE
  /\ lastClick = NoClick
  /\ aborted = {}
  /\ unmountThrew = FALSE
  /\ opacity \in Opacities
  /\ overlays = {}
  /\ upload = DefaultUploadState
  /\ updatingTask = FALSE
  /\ showTaskList = FALSE
  /\ refreshing = FALSE
  /\ itemError = ""
  /\ refreshes = 0
  /\ patchLog = <<>>
  /\ settled = 0
  /\ picking = FALSE
  /\ queued = 0
  /\ sending = 0
  /\ batch = 0
  /\ saved = {}
  /\ parsed = {}
  /\ failed = {}

----------------------------------------------------------------------------
(* async.each and its final callback *)

\* a mutant of EachInvokes: the final callback is not disarmed after its first call
EachInvokesAgain(err, done, live) == Truthy(err) \/ done + 1 >= N

\* async.each, the callback handed to the iteratee: is the final callback invoked
\* when an iteratee reports err, `done` iteratees having reported success before?
EachInvokes(err, done, live) == live /\ (Truthy(err) \/ done + 1 >= N)

NoCallback ==
  UNCHANGED <<cbCount, cbErr, error, ctrl, fitArg, fitThrew, clickHandler, overlays>>

\* err => { if (err) this.setState({error: err.message}); else { fitBounds; control; on('click') } }
\* who: the tile whose iteratee triggered the call; mb: this.mapBounds at the call;
\* ov: the overlays of this.imageryLayers at the call;
\* removedMapThrows: whether a call on the removed map throws (only read after unmount)
FinalCallback(err, who, mb, ov, removedMapThrows) ==
  /\ cbCount' = cbCount + 1
  /\ IF Truthy(err)
     THEN /\ error' = IF unmounted THEN error ELSE Message(err)
          /\ ctrl' = "Failed"
          /\ cbErr' = who
          /\ UNCHANGED <<fitArg, fitThrew, clickHandler, overlays>>
     ELSE IF mb = Null \/ (unmounted /\ removedMapThrows)
     THEN /\ fitThrew' = TRUE
          /\ UNCHANGED <<cbErr, error, ctrl, fitArg, clickHandler, overlays>>
     ELSE /\ fitArg' = mb
          /\ overlays' = ov
          /\ clickHandler' = TRUE
          /\ ctrl' = "Ready"
          /\ UNCHANGED <<cbErr, error, fitThrew>>

\* done(err) of the iteratee for tile `who`
IterateeDone(err, who, mb, ov, removedMapThrows) ==
  /\ completed' = IF Truthy(err) THEN completed ELSE completed + 1
  /\ IF EachInvokes(err, completed, cbLive)
     THEN /\ cbLive' = FALSE
          /\ FinalCallback(err, who, mb, ov, removedMapThrows)
     ELSE /\ cbLive' = IF Truthy(err) THEN FALSE ELSE cbLive
          /\ NoCallback

----------------------------------------------------------------------------
(* The handlers *)

\* componentDidMount: creates the map and starts one $.getJSON per tile
Mount ==
  /\ ctrl = "Idle"
  /\ tileJsonRequests' = [i \in 1..N |-> i]
  /\ req' = [i \in 1..N |-> "pending"]
  /\ IF N = 0
     THEN \* async.each over no items calls the final callback at once:
          \* this.map.fitBounds(null) throws out of componentDidMount
          /\ cbLive' = FALSE
          /\ cbCount' = cbCount + 1
          /\ fitThrew' = TRUE
          /\ ctrl' = "Loading"
          /\ UNCHANGED <<cbErr, error, fitArg, clickHandler>>
     ELSE /\ ctrl' = "Loading"
          /\ UNCHANGED <<cbLive, cbCount, cbErr, error, fitArg, fitThrew, clickHandler>>
  /\ UNCHANGED <<tiles, unmounted, info, rerr, imageryLayers, mapBounds, completed,
                 failOrder, lastClick, aborted, unmountThrew, opacity, overlays>>
  /\ UNCHANGED uploadVars

\* .done(info => ...) of request i, which received document d
FetchDone(i, d, removedMapThrows) ==
  /\ ctrl # "Idle"
  /\ req[i] = "pending"
  /\ info' = [info EXCEPT ![i] = d]
  /\ IF ~d.hasBounds \/ ~d.hasTiles \/ (unmounted /\ removedMapThrows)
     THEN \* info.bounds.slice / info.tiles[0] / addTo(this.map) throws
          /\ req' = [req EXCEPT ![i] = "threw"]
          /\ UNCHANGED <<tiles, imageryLayers, mapBounds, completed, cbLive>>
          /\ NoCallback
     ELSE LET bounds == BoundsOfInfo(d.bounds)
              layer == [tile |-> i, bounds |-> bounds, onMap |-> TRUE,
                        opacity |-> DefaultOpacity]
              mb == Extend(IF mapBounds = Null THEN EmptyBounds ELSE mapBounds, bounds)
              tls == [tiles EXCEPT ![i].meta = Associate(@, d)]
              layers == Append(imageryLayers, layer)
          IN /\ req' = [req EXCEPT ![i] = "done"]
             /\ tiles' = tls
             /\ imageryLayers' = layers
             /\ mapBounds' = mb
             /\ IterateeDone(NoErr, i, mb, OverlaysOf(layers, tls), removedMapThrows)
  /\ UNCHANGED <<unmounted, tileJsonRequests, rerr, failOrder, lastClick,
                 aborted, unmountThrew, opacity>>
  /\ UNCHANGED uploadVars

\* .fail((_, __, err) => done(err)) of request i
FetchFail(i, err, removedMapThrows) ==
  /\ ctrl # "Idle"
  /\ req[i] = "pending"
  /\ req' = [req EXCEPT ![i] = "failed"]
  /\ rerr' = [rerr EXCEPT ![i] = err]
  /\ failOrder' = Append(failOrder, i)
  /\ IterateeDone(err, i, mapBounds, OverlaysOf(imageryLayers, tiles), removedMapThrows)
  \* this.setState({error: ...}) of the final callback re-renders the mounted
  \* component, and componentDidUpdate runs
  /\ imageryLayers' = IF EachInvokes(err, completed, cbLive) /\ Truthy(err) /\ ~unmounted
                      THEN ApplyOpacity(imageryLayers, opacity)
                      ELSE imageryLayers
  /\ UNCHANGED <<tiles, unmounted, tileJsonRequests, info, mapBounds,
                 lastClick, aborted, unmountThrew, opacity>>
  /\ UNCHANGED uploadVars

\* a mutant of ClickTargets: the loop does not break at the first match
ClickTargetsNoBreak(layers, p) ==
  LET F[k \in 0..Len(layers)] ==
        IF k = 0 THEN <<>>
        ELSE IF layers[k].onMap /\ Contains(layers[k].bounds, p)
             THEN Append(F[k-1], k) ELSE F[k-1]
  IN F[Len(layers)]

RECURSIVE ClickFrom(_, _, _)
ClickFrom(layers, p, k) ==
  IF k > Len(layers) THEN <<>>
  ELSE IF layers[k].onMap /\ Contains(layers[k].bounds, p) THEN <<k>>
  ELSE ClickFrom(layers, p, k + 1)

\* the map click handler: the layers (positions in this.imageryLayers) that get openPopup()
ClickTargets(layers, p) == ClickFrom(layers, p, 1)

\* what the click handler leaves alone: everything but the popups
ClickFrame ==
  /\ UNCHANGED <<tiles, ctrl, unmounted, tileJsonRequests, req, info, rerr,
                 imageryLayers, mapBounds, completed, cbLive, cbCount, cbErr, failOrder,
                 error, fitArg, fitThrew, clickHandler, aborted, unmountThrew, opacity,
                 overlays>>
  /\ UNCHANGED uploadVars

\* this.map.on('click', e => ...) with e.latlng = p
Click(p) ==
  /\ clickHandler
  /\ ~unmounted
  /\ ClickFrame
  /\ lastClick' = ClickTargets(imageryLayers, p)

\* the user ticks or unticks the overlay of layer k in the layers control: the
\* layer is added to or removed from the map
ToggleOverlay(k) ==
  /\ ctrl = "Ready"
  /\ ~unmounted
  /\ \E e \in overlays : e[2] = k
  /\ imageryLayers' = [imageryLayers EXCEPT ![k].onMap = ~@]
  /\ UNCHANGED <<tiles, ctrl, unmounted, tileJsonRequests, req, info, rerr,
                 mapBounds, completed, cbLive, cbCount, cbErr, failOrder, error, fitArg,
                 fitThrew, clickHandler, lastClick, aborted, unmountThrew, opacity,
                 overlays>>
  /\ UNCHANGED uploadVars

\* the host re-renders the mounted component with props.opacity = p (the same
\* value or another): componentDidUpdate runs
SetOpacity(p) ==
  /\ ctrl # "Idle"
  /\ ~unmounted
  /\ opacity' = p
  /\ imageryLayers' = ApplyOpacity(imageryLayers, p)
  /\ UNCHANGED <<tiles, ctrl, unmounted, tileJsonRequests, req, info, rerr,
                 mapBounds, completed, cbLive, cbCount, cbErr, failOrder, error, fitArg,
                 fitThrew, clickHandler, lastClick, aborted, unmountThrew, overlays>>
  /\ UNCHANGED uploadVars

\* componentWillUnmount
Unmount ==
  /\ ctrl # "Idle"
  /\ ~unmounted
  /\ unmounted' = TRUE
  \* this.map.remove() removes every layer from the map
  /\ imageryLayers' = [k \in 1..Len(imageryLayers) |-> [imageryLayers[k] EXCEPT !.onMap = FALSE]]
  \* forEach(tileJsonRequest => this.tileJsonRequest.abort()): this.tileJsonRequest is
  \* undefined, so the first iteration throws a TypeError
  /\ IF Len(tileJsonRequests) > 0
     THEN /\ unmountThrew' = TRUE
          /\ UNCHANGED <<tileJsonRequests, aborted>>
     ELSE /\ tileJsonRequests' = <<>>
          /\ UNCHANGED <<unmountThrew, aborted>>
  /\ UNCHANGED <<tiles, ctrl, req, info, rerr, mapBounds, completed, cbLive, cbCount,
                 cbErr, failOrder, error, fitArg, fitThrew, clickHandler, lastClick,
                 opacity, overlays>>
  /\ UNCHANGED uploadVars

Next ==
  \/ Mount
  \/ \E i \in Urls, d \in Docs, t \in BOOLEAN : FetchDone(i, d, t)
  \/ \E i \in Urls, k \in FailKinds, t \in BOOLEAN : \E e \in ErrorThrown(k) : FetchFail(i, e, t)
  \/ \E p \in Points : Click(p)
  \/ \E k \in 1..MaxTiles + 1 : ToggleOverlay(k)
  \/ \E p \in Opacities : SetOpacity(p)
  \/ Unmount

Spec == Init /\ [][Next]_vars

TypeOK ==
  /\ ctrl \in {"Idle", "Loading", "Ready", "Failed"}
  /\ \A i \in Urls : req[i] \in {"unsent", "pending", "done", "threw", "failed"}
  /\ Len(imageryLayers) <= N
  /\ completed <= N
  /\ error \in {"", "msg", "undefined"}
  /\ overlays \subseteq (Names \X (1..N))

----------------------------------------------------------------------------
(* ProjectListItem: one Dropzone upload at a time, the task options panel  *)
(* and the PATCH of updateTaskInfo.  Dropzone events arrive outside React  *)
(* event handlers, so their setState calls take effect at once.            *)

FileStatus == {"success", "error"}

\* the response of the upload request: a JSON object with an id, a JSON object
\* without one, or text that JSON.parse rejects
Responses == {"id", "noid", "garbage"}

\* the status lists Dropzone can hand to completemultiple
FileLists == UNION { [1..n -> FileStatus] : n \in 1..MaxFiles }

\* handleTaskSaved: has the upload finished?
Saved(u) == ~u.uploading /\ u.taskId # NoTask

\* updateTaskInfo(taskId, taskInfo), called with this.state.upload = u: taskId
\* and taskInfo are set at both call sites, so neither throw is taken
UpdateTaskInfo(u) ==
  /\ upload' = Merge(u, [showEditTask |-> FALSE])
  /\ updatingTask' = TRUE
  /\ patchLog' = Append(patchLog, u.taskId)

NoUpdate == UNCHANGED <<updatingTask, patchLog>>

\* dragenter over the item, a click on "Upload Images" (handleUpload), or
\* Dropzone's reset event
Reset ==
  /\ upload' = Merge(upload, DefaultUploadState)
  /\ picking' = TRUE
  /\ UNCHANGED <<updatingTask, showTaskList, refreshing, itemError, refreshes, patchLog,
                 settled, queued, sending, batch, saved, parsed, failed>>
  /\ UNCHANGED mapVars

\* addedfile: files come in by a drop or from the file dialog
AddedFile ==
  /\ picking
  /\ sending = 0
  /\ queued < MaxFiles
  /\ queued' = queued + 1
  /\ upload' = Merge(upload, [totalCount |-> upload.totalCount + 1])
  /\ UNCHANGED <<updatingTask, showTaskList, refreshing, itemError, refreshes, patchLog,
                 settled, picking, sending, batch, saved, parsed, failed>>
  /\ UNCHANGED mapVars

\* processingmultiple: autoProcessQueue sends every queued file in one request
ProcessingMultiple ==
  /\ queued > 0
  /\ sending = 0
  /\ batch < MaxBatches
  /\ sending' = queued
  /\ queued' = 0
  /\ picking' = FALSE
  /\ batch' = batch + 1
  /\ upload' = Merge(upload, [uploading |-> TRUE, showEditTask |-> TRUE])
  /\ UNCHANGED <<updatingTask, showTaskList, refreshing, itemError, refreshes, patchLog,
                 settled, saved, parsed, failed>>
  /\ UNCHANGED mapVars

\* completemultiple
CompleteMultiple(files, response) ==
  /\ sending > 0
  /\ Len(files) = sending
  /\ sending' = 0
  /\ LET success == Len(files) > 0 /\ { k \in 1..Len(files) : files[k] # "success" } = {}
         u1 == Merge(upload, [uploading |-> FALSE])
         u2 == Merge(u1, [taskId |-> batch])
     IN IF success
        THEN /\ failed' = failed
             /\ IF response = "id"
                THEN /\ parsed' = parsed \cup {batch}
                     /\ IF u2.savedTaskInfo
                        THEN UpdateTaskInfo(u2)
                        ELSE upload' = u2 /\ NoUpdate
                ELSE /\ upload' = Merge(u1, [error |-> "Invalid response from server"])
                     /\ NoUpdate
                     /\ parsed' = parsed
        ELSE /\ upload' = Merge(upload, [uploading |-> FALSE,
                                         error |-> "Could not upload all files"])
             /\ NoUpdate
             /\ failed' = failed \cup {batch}
             /\ parsed' = parsed
  /\ UNCHANGED <<showTaskList, refreshing, itemError, refreshes, settled, picking, queued,
                 batch, saved>>
  /\ UNCHANGED mapVars

\* handleTaskSaved, the onSave of the EditTaskPanel, which is rendered while
\* upload.showEditTask.  batched: the call comes from inside a React event
\* handler, so this.state still holds the old state after the first setState
\* and the later setState of upload replaces the earlier one.
HandleTaskSaved(batched) ==
  /\ upload.showEditTask
  /\ saved' = saved \cup {batch}
  /\ LET u1 == Merge(upload, [savedTaskInfo |-> TRUE])
         seen == IF batched THEN upload ELSE u1
     IN IF Saved(seen)
        THEN UpdateTaskInfo(seen)
        ELSE upload' = u1 /\ NoUpdate
  /\ UNCHANGED <<showTaskList, refreshing, itemError, refreshes, settled, picking, queued,
                 sending, batch, parsed, failed>>
  /\ UNCHANGED mapVars

\* the PATCH succeeds: done, then always; refresh() sends a request
PatchDone ==
  /\ settled < Len(patchLog)
  /\ settled' = settled + 1
  /\ showTaskList' = TRUE
  /\ refreshing' = TRUE
  /\ refreshes' = refreshes + 1
  /\ updatingTask' = FALSE
  /\ UNCHANGED <<upload, itemError, patchLog, picking, queued, sending, batch, saved,
                 parsed, failed>>
  /\ UNCHANGED mapVars

\* the PATCH fails: fail, then always
PatchFail ==
  /\ settled < Len(patchLog)
  /\ settled' = settled + 1
  /\ upload' = Merge(upload, [error |-> "Could not update task information"])
  /\ updatingTask' = FALSE
  /\ UNCHANGED <<showTaskList, refreshing, itemError, refreshes, patchLog, picking, queued,
                 sending, batch, saved, parsed, failed>>
  /\ UNCHANGED mapVars

\* a request of refresh() settles: done or fail, then always
RefreshSettles(ok) ==
  /\ refreshes > 0
  /\ refreshes' = refreshes - 1
  /\ itemError' = IF ok THEN itemError ELSE "msg"
  /\ refreshing' = FALSE
  /\ UNCHANGED <<upload, updatingTask, showTaskList, patchLog, settled, picking, queued,
                 sending, batch, saved, parsed, failed>>
  /\ UNCHANGED mapVars

\* closeUploadError: the close button of the alert, rendered while there is an error
CloseUploadError ==
  /\ upload.error # ""
  /\ upload' = Merge(upload, [error |-> ""])
  /\ UNCHANGED <<updatingTask, showTaskList, refreshing, itemError, refreshes, patchLog,
                 settled, picking, queued, sending, batch, saved, parsed, failed>>
  /\ UNCHANGED mapVars

\* cancelUpload: "Cancel Upload" is shown while uploading and enabled while there
\* is no error; removeAllFiles(true) drops the files, the upload request is
\* aborted and Dropzone emits reset
CancelUpload ==
  /\ upload.uploading
  /\ upload.error = ""
  /\ queued' = 0
  /\ sending' = 0
  /\ upload' = Merge(upload, DefaultUploadState)
  /\ UNCHANGED <<updatingTask, showTaskList, refreshing, itemError, refreshes, patchLog,
                 settled, picking, batch, saved, parsed, failed>>
  /\ UNCHANGED mapVars

NextUpload ==
  \/ Reset
  \/ AddedFile
  \/ ProcessingMultiple
  \/ \E files \in FileLists, r \in Responses : CompleteMultiple(files, r)
  \/ \E batched \in BOOLEAN : HandleTaskSaved(batched)
  \/ PatchDone
  \/ PatchFail
  \/ \E ok \in BOOLEAN : RefreshSettles(ok)
  \/ CloseUploadError
  \/ CancelUpload

\* the project list page: no Map is mounted, its props are the defaults
InitUpload == Init /\ tiles = <<>> /\ opacity = 100

SpecUpload == InitUpload /\ [][NextUpload]_vars

-----------------------------------------------------------------------------
(* Helpers of the properties *)

Settled == ctrl # "Idle" /\ \A i \in Urls : req[i] \notin {"unsent", "pending"}
AllSucceeded == ctrl # "Idle" /\ \A i \in Urls : req[i] = "done"
Attached(layers) == { k \in 1..Len(layers) : layers[k].onMap }
SetMin(S) == CHOOSE x \in S : \A y \in S : x <= y
SetMax(S) == CHOOSE x \in S : \A y \in S : x >= y

\* the union of a set of bounds, written without reference to any order
UnionOfBounds(S) ==
  IF S = {} THEN EmptyBounds
  ELSE [kind |-> "bounds",
        south |-> SetMin({b.south : b \in S}), west |-> SetMin({b.west : b \in S}),
        north |-> SetMax({b.north : b \in S}), east |-> SetMax({b.east : b \in S})]

\* the bounds of tile i's document, corner by corner: [west, south, east, north]
DocBounds(i) ==
  [kind |-> "bounds", south |-> info[i].bounds[2], west |-> info[i].bounds[1],
   north |-> info[i].bounds[4], east |-> info[i].bounds[3]]

\* positions of the layers whose bounds contain p, attached or not
Hits(layers, p) == { k \in 1..Len(layers) : Contains(layers[k].bounds, p) }

----------------------------------------------------------------------------
(* C1 *)

\* C1: once every fetch has settled and at least one of them failed, the
\* controller is Failed and no layer is attached to the map.
C1_FailureLeavesNothingAttached ==
  (Settled /\ \E i \in Urls : req[i] = "failed")
    => (ctrl = "Failed" /\ Attached(imageryLayers) = {})

(* C2 *)

\* C2: once the load has ended (Failed or Ready) the registry and the aggregate
\* bounds no longer change, and after a failure no further layer is attached.
C2_LateSuccessDiscarded ==
  [][/\ ctrl \in {"Failed", "Ready"}
          => /\ Len(imageryLayers') = Len(imageryLayers)
             /\ mapBounds' = mapBounds
     /\ ctrl = "Failed"
          => Attached(imageryLayers') \subseteq Attached(imageryLayers)]_vars

(* C3 *)

C4_MalformedFails ==
  (Settled /\ \E i \in Urls : req[i] = "threw" /\ Malformed(info[i]))
    => ctrl = "Failed"

(* C5 *)

\* C5: after unmount no step appends a layer, changes the aggregate bounds or
\* attaches a layer.
C5_NoMutationAfterDestroy ==
  [][unmounted
       => /\ Len(imageryLayers') = Len(imageryLayers)
          /\ mapBounds' = mapBounds
          /\ Attached(imageryLayers') \subseteq Attached(imageryLayers)]_vars

(* C6 *)

\* C6: after unmount, componentWillUnmount has not thrown and every request
\* still outstanding has been asked to abort.
C6_DestroyAbortsAll ==
  unmounted
    => /\ ~unmountThrew
       /\ \A i \in Urls : req[i] = "pending" => i \in aborted

(* C7 *)

\* C7 as stated: a click opens exactly one popup, on the first-completed layer
\* whose bounds contain the point, and none if no layer contains it.
\* Stated on every state in which the handler is registered, for what the
\* handler opens there on a click at each point.
C7_ClickOpensFirstContaining ==
  (clickHandler /\ ~unmounted)
    => /\ ctrl = "Ready"
       /\ \A p \in Points :
            LET hits == Hits(imageryLayers, p)
            IN ClickTargets(imageryLayers, p) =
                 IF hits = {} THEN <<>> ELSE <<SetMin(hits)>>

\* C7 amended: a click in Ready opens exactly one popup, on the first-completed
\* layer that is currently on the map and whose bounds contain the point, and
\* none if no layer on the map contains it.
C7_ClickOpensFirstAttached ==
  (clickHandler /\ ~unmounted)
    => /\ ctrl = "Ready"
       /\ \A p \in Points :
            LET hits == Hits(imageryLayers, p) \cap Attached(imageryLayers)
            IN ClickTargets(imageryLayers, p) =
                 IF hits = {} THEN <<>> ELSE <<SetMin(hits)>>

\* two layers whose bounds share a point, the first-completed one switched off,
\* and a click has opened the popup of the second
C7_Witness ==
  /\ ctrl = "Ready" /\ ~unmounted
  /\ Len(imageryLayers) = 2
  /\ \E p \in Points : Hits(imageryLayers, p) = {1, 2}
  /\ Attached(imageryLayers) = {2}
  /\ lastClick = <<2>>

(* C8 *)

\* C8: the controller goes Idle, Loading, then Ready or Failed and stays there;
\* the final callback of async.each runs at most once.
C8_Lifecycle ==
  [][/\ ctrl = "Idle" => ctrl' \in {"Idle", "Loading"}
     /\ ctrl = "Loading" => ctrl' \in {"Loading", "Ready", "Failed"}
     /\ ctrl = "Ready" => ctrl' = "Ready"
     /\ ctrl = "Failed" => ctrl' = "Failed"
     /\ cbCount' <= 1]_vars

\* a Failed controller after which a second fetch failed with a truthy error
C8_Witness ==
  /\ ctrl = "Failed" /\ cbCount = 1
  /\ Cardinality({i \in Urls : req[i] = "failed" /\ Truthy(rerr[i])}) >= 2

(* C9 *)

\* C9: when several fetches have failed, the error handed to the final
\* callback is that of the first fetch that failed.
C9_FirstFailureReported ==
  Len(failOrder) >= 2 => cbErr = failOrder[1]

(* C10 *)

\* C10: this.state.error is "" while no fetch has failed, and a non-empty
\* message once the load of a mounted component has failed.
C10_ErrorString ==
  /\ (\A i \in Urls : req[i] # "failed") => error = ""
  /\ (ctrl = "Failed" /\ ~unmounted) => error = "msg"

(* C11 *)

\* C11: once a fetch has failed, every request still in flight has been asked
\* to abort.
C11_FailureCancelsInFlight ==
  failOrder # <<>> => \A i \in Urls : req[i] = "pending" => i \in aborted

(* C12 *)

\* the two documents of the scenario, in tenths of a degree:
\* [-9.2, 38.6, -9.1, 38.7] and [-9.3, 38.5, -9.2, 38.6]
ScenarioA == <<-92, 386, -91, 387>>
ScenarioB == <<-93, 385, -92, 386>>

\* C12: a layer's bounds have southWest = (south, west) and northEast =
\* (north, east) of its document's [west, south, east, north], and the two
\* documents of the scenario aggregate to southWest = (38.5, -9.3),
\* northEast = (38.7, -9.1).
C12_BoxNormalized ==
  /\ \A k \in 1..Len(imageryLayers) :
       LET box == info[imageryLayers[k].tile].bounds
       IN imageryLayers[k].bounds =
            [kind |-> "bounds", south |-> box[2], west |-> box[1],
             north |-> box[4], east |-> box[3]]
  /\ Len(imageryLayers) > 0 =>
       Extend(Extend(EmptyBounds, BoundsOfInfo(ScenarioA)), BoundsOfInfo(ScenarioB))
         = [kind |-> "bounds", south |-> 385, west |-> -93, north |-> 387, east |-> -91]

\* a layer whose document's box is not symmetric in the two axes
C12_Witness ==
  \E k \in 1..Len(imageryLayers) :
    /\ info[imageryLayers[k].tile].bounds[1] # info[imageryLayers[k].tile].bounds[2]
    /\ imageryLayers[k].bounds.south # imageryLayers[k].bounds.west

(* C13 *)

\* C13: a change of props.opacity while the controller is Loading or Failed
\* changes the opacity of no layer.
C13_OpacityInertWhileLoadingOrFailed ==
  [][(ctrl \in {"Loading", "Failed"} /\ opacity' # opacity)
       => \A k \in 1..Len(imageryLayers) :
            /\ k <= Len(imageryLayers')
            /\ imageryLayers'[k].opacity = imageryLayers[k].opacity]_vars

(* C14 *)

\* C14: after props.opacity = p is applied every layer's opacity is p / 100, and
\* applying p once more changes nothing.
C14_OpacityIdempotent ==
  [][\A p \in Opacities :
       SetOpacity(p)
         => /\ \A k \in 1..Len(imageryLayers') :
                 imageryLayers'[k].opacity.num * 100 = p * imageryLayers'[k].opacity.den
            /\ ApplyOpacity(imageryLayers', p) = imageryLayers']_vars

\* two layers carry a non-default opacity that was applied to them
C14_Witness ==
  /\ Len(imageryLayers) = 2
  /\ opacity = 50
  /\ \A k \in 1..2 : imageryLayers[k].opacity = [num |-> 1, den |-> 2]

(* C18 *)

\* C18: in Ready, every layer on the map of a mounted component has opacity
\* props.opacity / 100.
C18_ReadyOpacityMatchesHost ==
  (ctrl = "Ready" /\ ~unmounted)
    => \A k \in Attached(imageryLayers) :
         imageryLayers[k].opacity.num * 100 = opacity * imageryLayers[k].opacity.den

(* C15 *)

\* C15: after componentWillUnmount, from whatever state it was called in, no
\* error was raised, the map is released (no layer is on it) and the list of
\* outstanding requests is empty.
C15_DestroyLeavesNothing ==
  unmounted
    => /\ ~unmountThrew
       /\ Attached(imageryLayers) = {}
       /\ tileJsonRequests = <<>>

(* C16 *)

\* C16: in Ready, the overlay control holds an entry for every layer of the
\* registry, under the name of the layer's meta.
C16_OverlayForEveryLayer ==
  ctrl = "Ready"
    => \A k \in 1..Len(imageryLayers) :
         <<tiles[imageryLayers[k].tile].meta.name, k>> \in overlays

(* C17 *)

\* every layer was built for a descriptor whose fetch succeeded, from that
\* descriptor's document, and no two layers for the same descriptor
LayersOfSucceeded ==
  /\ \A k \in 1..Len(imageryLayers) :
       /\ req[imageryLayers[k].tile] = "done"
       /\ imageryLayers[k].bounds = DocBounds(imageryLayers[k].tile)
  /\ \A j, k \in 1..Len(imageryLayers) :
       imageryLayers[j].tile = imageryLayers[k].tile => j = k

\* C17 as stated: every descriptor's meta is as the host provided it, and a
\* layer exists only for a descriptor whose fetch succeeded; the meta a layer
\* carries is the meta object of its descriptor.
C17_MetaUnchanged ==
  /\ \A i \in Urls : tiles[i] = [url |-> i, meta |-> [task |-> i, name |-> NoName]]
  /\ LayersOfSucceeded

\* C17 amended: a descriptor's meta is as the host provided it except for its
\* name, which is the name of the descriptor's document once its fetch has
\* succeeded; a layer exists only for a descriptor whose fetch succeeded.
C17_MetaUnchangedButName ==
  /\ \A i \in Urls :
       tiles[i] = [url |-> i,
                   meta |-> [task |-> i,
                             name |-> IF req[i] = "done" THEN info[i].name ELSE NoName]]
  /\ LayersOfSucceeded

\* one descriptor's fetch succeeded and its meta carries the document's name,
\* another one's failed and its meta is untouched and on no layer
C17_Witness ==
  /\ N = 2
  /\ req[1] = "failed" /\ tiles[1].meta.name = NoName
  /\ req[2] = "done" /\ tiles[2].meta.name \in Names
  /\ Len(imageryLayers) = 1 /\ imageryLayers[1].tile = 2

(* C19 *)

\* C19: mounted with no descriptor, the controller is Ready with an empty
\* registry, and fitBounds was neither handed null nor threw.
C19_EmptyListReady ==
  (N = 0 /\ ctrl # "Idle")
    => /\ ctrl = "Ready"
       /\ imageryLayers = <<>>
       /\ fitArg # Null
       /\ ~fitThrew

(* C20 *)

\* number of PATCH requests issued for the task of batch b
Patches(log, b) == Cardinality({ k \in 1..Len(log) : log[k] = b })

\* C20: at every step, each batch has had exactly one PATCH if its upload
\* completed with every file successful and a task id parsed and the user
\* saved the task options during it, and none otherwise; the step in which a
\* batch completes with a failed file issues no PATCH and leaves a non-empty
\* upload error and uploading = false.
C20_PatchOnceAfterBoth ==
  [][/\ \A b \in 1..batch' :
          Patches(patchLog', b) = IF b \in parsed' /\ b \in saved' THEN 1 ELSE 0
     /\ failed' # failed
          => /\ upload'.error # ""
             /\ ~upload'.uploading
             /\ patchLog' = patchLog]_vars

====
